---- MODULE Spec2Model ----
(***************************************************************************)
(* STAFFVIRTUAL Discord bot (src/main.py): the provider-fallback resolver  *)
(* SVDiscordBot._get_ai_response, the prompt it assembles, the in-memory   *)
(* knowledge base, the AI client registry built at construction, and the   *)
(* slash-command handlers that put the resolver's result into embeds.      *)
(*                                                                         *)
(* Strings are sequences of symbols.  A symbol is one character, or one    *)
(* fixed block of literal text of the source (brand_dna, the labels of the *)
(* prompt template) that no input can contain.  The character U+274C that  *)
(* starts the error strings is written "X".                                *)
(*                                                                         *)
(* src/main.py as given does not compile: line 70 is indented by 7 columns *)
(* and lines 818-819 open two string literals in one.  The model follows   *)
(* the statements as written, taking line 70 at the indentation of its     *)
(* block and lines 818-873 as the two literals system_context and          *)
(* seo_prompt.                                                             *)
(***************************************************************************)
EXTENDS Integers, Sequences, FiniteSets, TLC

\* ------------------------------------------------------------------ bounds
MaxStrLen == 1
MaxTextLen == 2
MaxCut == 1
MaxTitles == 2
Slack == 1

\* ----------------------------------------------------------------- strings
Chars == {"a", "A"}

StrsUpTo(n) == UNION {[1..k -> Chars] : k \in 0..n}

Requests == StrsUpTo(MaxStrLen)

SystemContexts == {<<>>, <<"a">>}

ShortTexts == StrsUpTo(MaxTextLen)

\* the i-th knowledge title: "a", "A", "aa", "AA", ...
Title(i) == [j \in 1..((i + 1) \div 2) |-> IF i % 2 = 1 THEN "a" ELSE "A"]

Titles == {Title(i) : i \in 1..MaxTitles}

Contents == {<<"a">>, <<"A", "a">>}

\* Python's None and a present value
NoneVal == [is_none |-> TRUE]

Some(x) == [is_none |-> FALSE, v |-> x]

MaxLengths == {NoneVal} \cup {Some(n) : n \in 0..MaxCut}

\* s[:n] for n >= 0
Prefix(s, n) == SubSeq(s, 1, IF n < Len(s) THEN n ELSE Len(s))

\* s[a:b] for 0 <= a <= b
Slice(s, a, b) == SubSeq(s, a + 1, IF b < Len(s) THEN b ELSE Len(s))

IsSubstring(t, s) == \E i \in 0..(Len(s) - Len(t)) : SubSeq(s, i + 1, i + Len(t)) = t

\* str.lower() on the symbols in use
Lower(c) ==
    CASE c = "A" -> "a" [] c = "P" -> "p" [] c = "N" -> "n" [] c = "I" -> "i" [] c = "E" -> "e"
      [] OTHER -> c

LowerStr(str) == [i \in 1..Len(str) |-> Lower(str[i])]

ErrorMarker == "X"

Dots == <<".", ".", ".">>

NoServiceSentinel_unmarked == <<"N", "o", " ", "A", "I", " ", "s", "e", "r", "v", "i", "c", "e", ".">>

NoServiceSentinel == <<ErrorMarker, " ", "N", "o", " ", "A", "I", " ", "s", "e", "r", "v", "i", "c", "e", " ", "a", "v", "a", "i", "l", "a", "b", "l", "e", ".">>

ErrorSentinel(msg) == <<ErrorMarker, " ", "E", "r", "r", "o", "r", ":", " ">> \o msg

ExcMsg == <<"e">>

\* ------------------------------------------------------------- environment
EnvKeysRead == {"GEMINI_API_KEY", "OPENAI_API_KEY"}

EnvKeysUnread == {"ANTHROPIC_API_KEY"}

GenaiImports == {"google.genai", "google.generativeai", "none"}

NANO_BANANA_AVAILABLE(e) == e.genai = "google.genai"

\* the provider initialisations that actually run under e
InitsRun(e) ==
    (IF "GEMINI_API_KEY" \in e.keys /\ e.genai # "none" THEN {"gemini"} ELSE {})
    \cup (IF "OPENAI_API_KEY" \in e.keys /\ e.openai THEN {"openai"} ELSE {})

Envs ==
    {e \in [keys : SUBSET (EnvKeysRead \cup EnvKeysUnread), genai : GenaiImports,
            openai : BOOLEAN, init_raises : SUBSET {"gemini", "openai"}] :
        e.init_raises \subseteq InitsRun(e)}

_initialize_ai_clients_any_key(e) ==
    LET gemini_clients ==
            IF "GEMINI_API_KEY" \in e.keys /\ e.genai # "none" /\ "gemini" \notin e.init_raises
            THEN (IF NANO_BANANA_AVAILABLE(e) THEN {"nano_banana"} ELSE {"gemini"})
            ELSE {}
        openai_clients ==
            IF e.keys # {} /\ e.openai /\ "openai" \notin e.init_raises
            THEN {"openai"}
            ELSE {}
    IN gemini_clients \cup openai_clients

_initialize_ai_clients_abort_on_raise(e) ==
    LET gemini_clients ==
            IF "GEMINI_API_KEY" \in e.keys /\ e.genai # "none" /\ "gemini" \notin e.init_raises
            THEN (IF NANO_BANANA_AVAILABLE(e) THEN {"nano_banana"} ELSE {"gemini"})
            ELSE {}
        openai_clients ==
            IF "OPENAI_API_KEY" \in e.keys /\ e.openai /\ e.init_raises = {}
            THEN {"openai"}
            ELSE {}
    IN gemini_clients \cup openai_clients

_initialize_ai_clients_both_gemini(e) ==
    LET gemini_clients ==
            IF "GEMINI_API_KEY" \in e.keys /\ e.genai # "none" /\ "gemini" \notin e.init_raises
            THEN (IF NANO_BANANA_AVAILABLE(e) THEN {"nano_banana", "gemini"} ELSE {"gemini"})
            ELSE {}
        openai_clients ==
            IF "OPENAI_API_KEY" \in e.keys /\ e.openai /\ "openai" \notin e.init_raises
            THEN {"openai"}
            ELSE {}
    IN gemini_clients \cup openai_clients

_initialize_ai_clients(e) ==
    LET gemini_clients ==
            IF "GEMINI_API_KEY" \in e.keys /\ e.genai # "none" /\ "gemini" \notin e.init_raises
            THEN (IF NANO_BANANA_AVAILABLE(e) THEN {"nano_banana"} ELSE {"gemini"})
            ELSE {}
        openai_clients ==
            IF "OPENAI_API_KEY" \in e.keys /\ e.openai /\ "openai" \notin e.init_raises
            THEN {"openai"}
            ELSE {}
    IN gemini_clients \cup openai_clients

\* ------------------------------------------------------------ brand colors
HexDigits == {"0", "1", "2", "3", "4", "5", "6", "7", "8", "9",
              "a", "b", "c", "d", "e", "f", "A", "B", "C", "D", "E", "F"}

HexVal(c) ==
    CASE c = "0" -> 0 [] c = "1" -> 1 [] c = "2" -> 2 [] c = "3" -> 3 [] c = "4" -> 4
      [] c = "5" -> 5 [] c = "6" -> 6 [] c = "7" -> 7 [] c = "8" -> 8 [] c = "9" -> 9
      [] c \in {"a", "A"} -> 10 [] c \in {"b", "B"} -> 11 [] c \in {"c", "C"} -> 12
      [] c \in {"d", "D"} -> 13 [] c \in {"e", "E"} -> 14 [] c \in {"f", "F"} -> 15

\* str.replace(old, '') for a one-character old
Remove(str, old) ==
    LET F[i \in 0..Len(str)] ==
            IF i = 0 THEN <<>> ELSE IF str[i] = old THEN F[i - 1] ELSE Append(F[i - 1], str[i])
    IN F[Len(str)]

\* str.strip()
Strip(str) ==
    LET solid == {i \in 1..Len(str) : str[i] # " "}
    IN IF solid = {} THEN <<>>
       ELSE SubSeq(str, CHOOSE i \in solid : \A j \in solid : i <= j,
                        CHOOSE i \in solid : \A j \in solid : i >= j)

\* the digits part of an int literal: digits, single underscores between them
\* (and, after a base prefix, one in front)
DigitsOk(str, after_prefix) ==
    /\ str # <<>>
    /\ \A i \in 1..Len(str) : str[i] \in HexDigits \cup {"_"}
    /\ str[Len(str)] # "_"
    /\ str[1] = "_" => after_prefix
    /\ \A i \in 1..(Len(str) - 1) : ~(str[i] = "_" /\ str[i + 1] = "_")

HexValue(str) ==
    LET F[i \in 0..Len(str)] ==
            IF i = 0 THEN 0 ELSE IF str[i] = "_" THEN F[i - 1] ELSE 16 * F[i - 1] + HexVal(str[i])
    IN F[Len(str)]

\* int(str, 16): None stands for ValueError.  An optional sign, an optional
\* 0x/0X prefix, then the digits.
IntBase16(str) ==
    LET s1 == Strip(str)
        signed == s1 # <<>> /\ s1[1] \in {"+", "-"}
        s2 == IF signed THEN Tail(s1) ELSE s1
        prefixed == Len(s2) >= 2 /\ s2[1] = "0" /\ s2[2] \in {"x", "X"}
        s3 == IF prefixed THEN SubSeq(s2, 3, Len(s2)) ELSE s2
    IN IF DigitsOk(s3, prefixed)
       THEN Some(IF signed /\ s1[1] = "-" THEN 0 - HexValue(s3) ELSE HexValue(s3))
       ELSE NoneVal

Returned(v) == [raised |-> FALSE, value |-> v]

Raised == [raised |-> TRUE, value |-> 0]

HandlerCatches_nothing == FALSE

\* except (ValueError, AttributeError): the try body raises nothing else
HandlerCatches == TRUE

parse_color(color_str, default) ==
    LET of_default == IntBase16(Remove(default, "#"))
        color_clean == Strip(Remove(color_str.v, "#"))
        body == IF color_str.is_none \/ color_str.v = <<>> \/ Strip(color_str.v) = <<>>
                THEN of_default
                ELSE IF Len(color_clean) = 6 THEN IntBase16(color_clean) ELSE of_default
    IN IF ~body.is_none
       THEN Returned(body.v)
       ELSE IF HandlerCatches /\ ~of_default.is_none THEN Returned(of_default.v) ELSE Raised

ColorSettings == <<"BRAND_PRIMARY_COLOR", "BRAND_SECONDARY_COLOR", "BRAND_ACCENT_COLOR", "BRAND_NEUTRAL_COLOR">>

ColorKeys == <<"primary_color", "secondary_color", "accent_color", "neutral_color">>

ColorDefaults ==
    <<<<"#", "1", "8", "8", "8", "F", "F">>, <<"#", "F", "8", "F", "8", "E", "B">>,
      <<"#", "0", "0", "4", "B", "8", "D">>, <<"#", "2", "3", "1", "F", "2", "0">>>>

\* ------------------------------------------------------------------- state
VARIABLES env, ai_clients, knowledge_base, last_added, readded, pc, caller, prompt, system_context, use_knowledge,
          max_length, enhanced_prompt, calls, result,
          cmd, hpc, args, deferred, cmd_result, image_result, temp_files, embed, followups, escaped,
          color_env, brand_config, token, main_pc, exit_status, error_log, bot_run

startVars == <<color_env, brand_config, token, main_pc, exit_status, error_log, bot_run>>

botVars == <<env, ai_clients, knowledge_base, last_added, readded, startVars>>

reqVars == <<caller, prompt, system_context, use_knowledge, max_length, enhanced_prompt>>

resolverVars == <<pc, caller, prompt, system_context, use_knowledge, max_length,
                  enhanced_prompt, calls, result>>

cmdVars == <<cmd, hpc, args, deferred, cmd_result, image_result, temp_files, embed, followups, escaped>>

vars == <<env, ai_clients, knowledge_base, last_added, readded, pc, caller, prompt, system_context, use_knowledge,
          max_length, enhanced_prompt, calls, result,
          cmd, hpc, args, deferred, cmd_result, image_result, temp_files, embed, followups, escaped,
          color_env, brand_config, token, main_pc, exit_status, error_log, bot_run>>

\* ---------------------------------------------------------- prompt assembly
brand_dna == <<"brand_dna">>

EnhancedPrompt(p, sc) ==
    brand_dna \o <<"Your Expert Role: ">> \o sc \o <<"User Request: ">> \o p
              \o <<"Instructions: 1. .. 8. Create expert-level content">>

Payload_system_only(provider, p, sc) ==
    IF provider = "openai"
    THEN <<brand_dna \o <<"\n">> \o sc>>
    ELSE <<EnhancedPrompt(p, sc)>>

\* what each branch hands to its provider: the list of message contents
Payload(provider, p, sc) ==
    IF provider = "openai"
    THEN <<brand_dna \o <<"\n">> \o sc, p>>
    ELSE <<EnhancedPrompt(p, sc)>>

\* ---------------------------------------------------------------- resolver
Order == <<"nano_banana", "gemini", "openai">>

Configured_unchecked(provider) == provider = "nano_banana" \/ provider \in ai_clients

Configured(provider) == provider \in ai_clients

InnerCatches_gemini_only(provider) == provider \in {"nano_banana", "gemini"}

InnerCatches(provider) == TRUE

Truncate(text, ml) ==
    IF (~ml.is_none /\ ml.v # 0) /\ Len(text) > ml.v
    THEN Prefix(text, ml.v) \o Dots
    ELSE text

NextBranch_retry(i) ==
    LET rest == {j \in (IF i > 1 THEN i - 1 ELSE i)..Len(Order) : Configured(Order[j])}
    IN IF rest = {} THEN 0 ELSE CHOOSE j \in rest : \A k \in rest : j <= k

NextBranch_last(i) ==
    LET rest == {j \in i..Len(Order) : Configured(Order[j])}
    IN IF rest = {} THEN 0 ELSE CHOOSE j \in rest : \A k \in rest : j >= k

\* the first branch at or after position i whose client is in the registry, 0 if none
NextBranch(i) ==
    LET rest == {j \in i..Len(Order) : Configured(Order[j])}
    IN IF rest = {} THEN 0 ELSE CHOOSE j \in rest : \A k \in rest : j <= k

Position(provider) == CHOOSE i \in 1..Len(Order) : Order[i] = provider

\* control reaches the i-th "if ... in self.ai_clients" with call log `log`
Enter(i, log, p, sc) ==
    LET j == NextBranch(i)
    IN IF j = 0
       THEN /\ pc' = "done"
            /\ result' = Some(NoServiceSentinel)
            /\ calls' = log
       ELSE /\ pc' = Order[j]
            /\ result' = NoneVal
            /\ calls' = Append(log, [provider |-> Order[j], payload |-> Payload(Order[j], p, sc),
                                     outcome |-> "pending", text |-> <<>>])

StartResolver(who, p, sc, uk, ml) ==
    /\ pc = "idle"
    /\ caller' = who
    /\ prompt' = p
    /\ system_context' = sc
    /\ use_knowledge' = uk
    /\ max_length' = ml
    /\ enhanced_prompt' = EnhancedPrompt(p, sc)
    /\ Enter(1, <<>>, p, sc)

Settle(log, how, t) == [log EXCEPT ![Len(log)].outcome = how, ![Len(log)].text = t]

GetAIResponse(p, sc, uk, ml) ==
    /\ hpc = "idle"
    /\ StartResolver("direct", p, sc, uk, ml)
    /\ UNCHANGED <<botVars, cmdVars>>

ProviderReturn(t) ==
    /\ pc \in {Order[i] : i \in 1..Len(Order)}
    /\ pc' = "done"
    /\ result' = Some(Truncate(t, max_length))
    /\ calls' = Settle(calls, "ok", t)
    /\ UNCHANGED <<botVars, reqVars, cmdVars>>

ProviderRaise_evicts ==
    /\ pc \in {Order[i] : i \in 1..Len(Order)}
    /\ Enter(Position(pc) + 1, Settle(calls, "raise", <<>>), prompt, system_context)
    /\ ai_clients' = ai_clients \ {pc}
    /\ UNCHANGED <<env, knowledge_base, last_added, readded, startVars, reqVars, cmdVars>>

ProviderRaise ==
    /\ pc \in {Order[i] : i \in 1..Len(Order)}
    /\ IF InnerCatches(pc)
       THEN Enter(Position(pc) + 1, Settle(calls, "raise", <<>>), prompt, system_context)
       ELSE /\ pc' = "done"
            /\ result' = Some(ErrorSentinel(ExcMsg))
            /\ calls' = Settle(calls, "raise", <<>>)
    /\ UNCHANGED <<botVars, reqVars, cmdVars>>

\* the call is over: its frame is gone
ResetResolver ==
    /\ pc' = "idle"
    /\ caller' = "nobody"
    /\ prompt' = <<>>
    /\ system_context' = <<>>
    /\ use_knowledge' = TRUE
    /\ max_length' = NoneVal
    /\ enhanced_prompt' = <<>>
    /\ calls' = <<>>
    /\ result' = NoneVal

ResolverReturn ==
    /\ pc = "done"
    /\ caller = "direct"
    /\ ResetResolver
    /\ UNCHANGED <<botVars, cmdVars>>

\* ---------------------------------------------------------- knowledge base
\* a dict in insertion order: a sequence of [key, value] with distinct keys
DictHas(d, k) == \E i \in 1..Len(d) : d[i].key = k

DictSet_append(d, k, val) == Append(d, [key |-> k, value |-> val])

\* d[k] = val
DictSet(d, k, val) ==
    IF DictHas(d, k)
    THEN [i \in 1..Len(d) |-> IF d[i].key = k THEN [key |-> k, value |-> val] ELSE d[i]]
    ELSE Append(d, [key |-> k, value |-> val])

EmptyKnowledgeBase == [manual_entries |-> <<>>, scraped_content |-> <<>>]

_add_to_knowledge_base(title, content) ==
    /\ pc = "idle"
    /\ hpc = "idle"
    /\ LET kb == IF knowledge_base.is_none THEN EmptyKnowledgeBase ELSE knowledge_base.v
       IN knowledge_base' =
            Some([kb EXCEPT !.manual_entries =
                    DictSet(@, title, [content |-> content, type |-> "manual"])])
    /\ last_added' = [last_added EXCEPT ![title] = Some(content)]
    /\ readded' = IF last_added[title].is_none THEN readded ELSE readded \cup {title}
    /\ UNCHANGED <<env, ai_clients, startVars, resolverVars, cmdVars>>

\* --------------------------------------------------------- slash commands
Commands == {"content", "image", "social", "campaign", "seo_audit"}

Topics == {<<>>, <<"a">>}

\* the commands that take a boolean option: include_image, create_assets
Flags(c) == IF c \in {"content", "social", "campaign"} THEN BOOLEAN ELSE {FALSE}

LongText(n) == [i \in 1..n |-> IF i % 2 = 1 THEN "a" ELSE "A"]

KeywordText == <<"P", "r", "o", "d", "u", "c", "t", "i", "v", "i", "t", "y">>

\* result lengths at and around the slicing thresholds of the handlers
CmdLengths ==
    (0..Slack) \cup UNION {(t - Slack)..(t + Slack) : t \in {1000, 1024, 2000, 2048, 6144}}

CmdTexts == {LongText(n) : n \in CmdLengths} \cup {KeywordText}

industry_keywords ==
    <<<<"v", "i", "r", "t", "u", "a", "l", " ", "a", "s", "s", "i", "s", "t", "a", "n", "t">>,
      <<"r", "e", "m", "o", "t", "e", " ", "w", "o", "r", "k">>,
      <<"v", "i", "r", "t", "u", "a", "l", " ", "s", "t", "a", "f", "f", "i", "n", "g">>,
      <<"b", "u", "s", "i", "n", "e", "s", "s", " ", "e", "f", "f", "i", "c", "i", "e", "n", "c", "y">>,
      <<"p", "r", "o", "d", "u", "c", "t", "i", "v", "i", "t", "y">>,
      <<"o", "u", "t", "s", "o", "u", "r", "c", "i", "n", "g">>,
      <<"r", "e", "m", "o", "t", "e", " ", "t", "e", "a", "m">>,
      <<"v", "i", "r", "t", "u", "a", "l", " ", "t", "e", "a", "m">>,
      <<"b", "u", "s", "i", "n", "e", "s", "s", " ", "g", "r", "o", "w", "t", "h">>,
      <<"c", "o", "s", "t", " ", "s", "a", "v", "i", "n", "g", "s">>,
      <<"s", "c", "a", "l", "a", "b", "i", "l", "i", "t", "y">>,
      <<"f", "l", "e", "x", "i", "b", "i", "l", "i", "t", "y">>,
      <<"e", "x", "p", "e", "r", "t", " ", "t", "a", "l", "e", "n", "t">>,
      <<"p", "r", "o", "f", "e", "s", "s", "i", "o", "n", "a", "l", " ", "s", "e", "r", "v", "i", "c", "e", "s">>>>

SymbolsOf(str) == {str[i] : i \in 1..Len(str)}

SelectSeq2(str, keep) ==
    LET F[i \in 0..Len(str)] ==
            IF i = 0 THEN <<>> ELSE IF str[i] \in keep THEN Append(F[i - 1], str[i]) ELSE F[i - 1]
    IN F[Len(str)]

\* keyword in content.lower(), or the keyword without its spaces inside a word
KeywordFound(keyword, lowered, symbols) ==
    /\ SymbolsOf(keyword) \ {" "} \subseteq symbols
    /\ \/ IsSubstring(keyword, lowered)
       \/ IsSubstring(SelectSeq2(keyword, SymbolsOf(keyword) \ {" "}), lowered)

_extract_seo_keywords(content) ==
    LET lowered == LowerStr(content)
        symbols == {Lower(c) : c \in SymbolsOf(content)}
        F[i \in 0..Len(industry_keywords)] ==
            IF i = 0 THEN <<>>
            ELSE IF KeywordFound(industry_keywords[i], lowered, symbols)
                 THEN Append(F[i - 1], industry_keywords[i])
                 ELSE F[i - 1]
    IN Prefix(F[Len(industry_keywords)], 10)

\* ", ".join(words)
JoinComma(words) ==
    LET F[i \in 0..Len(words)] ==
            IF i = 0 THEN <<>>
            ELSE IF i = 1 THEN words[1] ELSE F[i - 1] \o <<",", " ">> \o words[i]
    IN F[Len(words)]

CmdPrompt(c, a) ==
    CASE c = "content" -> <<"Create a comprehensive content_type for STAFFVIRTUAL about: ">> \o a.topic
                            \o <<"Content Requirements ..">>
      [] c = "image" -> <<"Create detailed STAFFVIRTUAL image concept: ">> \o a.topic \o <<", style: professional">>
      [] c = "social" -> <<"Create a high-converting platform post for STAFFVIRTUAL about: ">> \o a.topic
                            \o <<"PLATFORM-SPECIFIC STRATEGY ..">>
      [] c = "campaign" -> <<"Design a comprehensive campaign_type marketing campaign for STAFFVIRTUAL: Campaign Goal: ">>
                            \o a.topic \o <<"COMPREHENSIVE CAMPAIGN FRAMEWORK ..">>
      [] c = "seo_audit" -> <<"Conduct a comprehensive SEO audit for STAFFVIRTUAL content: Content to Audit: ">>
                            \o a.topic \o <<"SEO AUDIT FRAMEWORK ..">>

CmdSystemContext(c) ==
    CASE c = "content" -> <<"You are a senior content marketing strategist ..">>
      [] c = "image" -> <<"Expert image concept designer specializing in virtual staffing company branding">>
      [] c = "social" -> <<"You are a social media marketing expert and hashtag strategist ..">>
      [] c = "campaign" -> <<"You are a senior marketing campaign strategist ..">>
      [] c = "seo_audit" -> <<"You are an enterprise SEO strategist ..">>

Field(name, value) == [name |-> name, value |-> value]

ImageReady(img) == ~img.is_none /\ img.v.success /\ img.v.image_path # ""

ContentFields(r, img) ==
    LET seo_keywords == _extract_seo_keywords(r)
    IN (IF seo_keywords # <<>>
        THEN <<Field(<<"SEO Keywords Found">>, JoinComma(seo_keywords))>>
        ELSE <<>>)
       \o (IF Len(r) > 1000
           THEN <<Field(<<"Content Preview (Part 1)">>, Slice(r, 0, 1000))>>
                \o (IF Len(r) > 2000
                    THEN <<Field(<<"Content Preview (Part 2)">>, Slice(r, 1000, 2000)),
                           Field(<<"Complete Content (see file)">>,
                                 <<"See attached file for full article with SEO analysis">>)>>
                    ELSE <<Field(<<"Content Preview (Part 2)">>, Slice(r, 1000, Len(r)))>>)
           ELSE <<Field(<<"Complete Content">>, r)>>)
       \o (IF ImageReady(img)
           THEN <<Field(<<"Paired Image">>, <<"Header image generated and attached">>)>>
           ELSE <<>>)

ImageConceptFields_uncut(r) == <<Field(<<"Concept">>, r)>>

ImageConceptFields(r) == <<Field(<<"Concept">>, Slice(r, 0, 1024))>>

SocialFields_off_by_one(r, img) ==
    (IF Len(r) >= 1024
     THEN <<Field(<<"Post (Part 1)">>, Slice(r, 0, 1024))>>
          \o (IF Len(r) > 2048
              THEN <<Field(<<"Post (Part 2)">>, Slice(r, 1024, 2048))>>
              ELSE <<Field(<<"Post (Part 2)">>, Slice(r, 1024, Len(r)))>>)
     ELSE <<Field(<<"Post">>, r)>>)
    \o (IF ImageReady(img)
        THEN <<Field(<<"Paired Image">>, <<"Social media image generated and attached">>)>>
        ELSE <<>>)

SocialFields(r, img) ==
    (IF Len(r) > 1024
     THEN <<Field(<<"Post (Part 1)">>, Slice(r, 0, 1024))>>
          \o (IF Len(r) > 2048
              THEN <<Field(<<"Post (Part 2)">>, Slice(r, 1024, 2048))>>
              ELSE <<Field(<<"Post (Part 2)">>, Slice(r, 1024, Len(r)))>>)
     ELSE <<Field(<<"Post">>, r)>>)
    \o (IF ImageReady(img)
        THEN <<Field(<<"Paired Image">>, <<"Social media image generated and attached">>)>>
        ELSE <<>>)

CampaignFields(r, create_assets) ==
    (IF Len(r) > 1000
     THEN <<Field(<<"Campaign Preview (Part 1)">>, Slice(r, 0, 1000))>>
          \o (IF Len(r) > 2000
              THEN <<Field(<<"Campaign Preview (Part 2)">>, Slice(r, 1000, 2000)),
                     Field(<<"Complete Strategy">>,
                           <<"See attached file for full campaign strategy and asset checklist">>)>>
              ELSE <<Field(<<"Campaign Preview (Part 2)">>, Slice(r, 1000, Len(r)))>>)
     ELSE <<Field(<<"Complete Campaign Strategy">>, r)>>)
    \o (IF create_assets
        THEN <<Field(<<"Asset Creation">>, <<"Use /content, /social, and /image commands ..">>)>>
        ELSE <<>>)

\* [r[i:i+1024] for i in range(0, len(r), 1024)]
SeoChunks(r) == [k \in 1..((Len(r) + 1023) \div 1024) |-> Slice(r, (k - 1) * 1024, k * 1024)]

SeoFields_uncapped(r) ==
    IF Len(r) > 1024
    THEN LET chunks == SeoChunks(r)
         IN [i \in 1..Len(chunks) |->
                Field(IF i = 1 THEN <<"SEO Analysis">> ELSE <<"Continued", i>>, chunks[i])]
            \o (IF Len(chunks) > 6
                THEN <<Field(<<"Complete Audit">>, <<"See attached file for full SEO analysis">>)>>
                ELSE <<>>)
    ELSE <<Field(<<"SEO Analysis">>, r)>>

SeoFields(r) ==
    IF Len(r) > 1024
    THEN LET chunks == SeoChunks(r)
             shown == Prefix(chunks, 6)
         IN [i \in 1..Len(shown) |->
                Field(IF i = 1 THEN <<"SEO Analysis">> ELSE <<"Continued", i>>, shown[i])]
            \o (IF Len(chunks) > 6
                THEN <<Field(<<"Complete Audit">>, <<"See attached file for full SEO analysis">>)>>
                ELSE <<>>)
    ELSE <<Field(<<"SEO Analysis">>, r)>>

\* the embed of the follow-up: an image embed has no field
BuildEmbed(c, r, a, img) ==
    CASE c = "content" -> [title |-> "STAFFVIRTUAL Enhanced Content Created!", fields |-> ContentFields(r, img)]
      [] c = "image" -> IF ImageReady(img)
                        THEN [title |-> "STAFFVIRTUAL Image Generated!", fields |-> <<>>]
                        ELSE [title |-> "STAFFVIRTUAL Image Concept", fields |-> ImageConceptFields(r)]
      [] c = "social" -> [title |-> "STAFFVIRTUAL Enhanced Social Post!", fields |-> SocialFields(r, img)]
      [] c = "campaign" -> [title |-> "STAFFVIRTUAL Enhanced Campaign Strategy!",
                            fields |-> CampaignFields(r, a.flag)]
      [] c = "seo_audit" -> [title |-> "STAFFVIRTUAL SEO Audit Complete!", fields |-> SeoFields(r)]

TextFile(name, body) == [name |-> name, body |-> body, path |-> ""]

ImageFile(name, path) == [name |-> name, body |-> <<>>, path |-> path]

\* the files sent with the embed
BuildFiles(c, r, img) ==
    CASE c = "content" ->
            <<TextFile("STAFFVIRTUAL_content_enhanced.md",
                       <<"# STAFFVIRTUAL content_type: topic", "## SEO Analysis ..", "## Content">> \o r)>>
            \o (IF ImageReady(img) THEN <<ImageFile("STAFFVIRTUAL_header.png", img.v.image_path)>> ELSE <<>>)
      [] c = "image" ->
            IF ImageReady(img) THEN <<ImageFile("staffvirtual.png", img.v.image_path)>> ELSE <<>>
      [] c = "social" ->
            IF ImageReady(img) THEN <<ImageFile("STAFFVIRTUAL_platform.png", img.v.image_path)>> ELSE <<>>
      [] c = "campaign" ->
            <<TextFile("STAFFVIRTUAL_campaign.md",
                       <<"# STAFFVIRTUAL Marketing Campaign ..">> \o r \o <<"## Campaign Assets Checklist ..">>)>>
      [] c = "seo_audit" ->
            IF Len(r) > 1024 /\ Len(SeoChunks(r)) > 6
            THEN <<TextFile("STAFFVIRTUAL_seo_audit.md", <<"# STAFFVIRTUAL SEO Audit ..">> \o r)>>
            ELSE <<>>

\* a slash command arrives
CmdInvoke(c, topic, flag) ==
    /\ hpc = "idle"
    /\ pc = "idle"
    /\ cmd' = c
    /\ args' = [topic |-> topic, flag |-> flag]
    /\ hpc' = "defer"
    /\ UNCHANGED <<botVars, resolverVars, deferred, cmd_result, image_result, temp_files, embed,
                   followups, escaped>>

\* await interaction.response.defer(thinking=True), outside the try block
CmdDefer(ok) ==
    /\ hpc = "defer"
    /\ IF ok
       THEN /\ deferred' = TRUE
            /\ hpc' = IF cmd = "image" THEN "imaging" ELSE "ask"
            /\ UNCHANGED escaped
       ELSE /\ escaped' = TRUE
            /\ hpc' = "finished"
            /\ UNCHANGED deferred
    /\ UNCHANGED <<botVars, resolverVars, cmd, args, cmd_result, image_result, temp_files, embed, followups>>

\* await bot._get_ai_response(prompt, system_context)
CmdAsk ==
    /\ hpc = "ask"
    /\ StartResolver("cmd", CmdPrompt(cmd, args), CmdSystemContext(cmd), TRUE, NoneVal)
    /\ hpc' = "resolving"
    /\ UNCHANGED <<botVars, cmd, args, deferred, cmd_result, image_result, temp_files, embed,
                   followups, escaped>>

CmdTakeResult_checks_prefix ==
    /\ hpc = "resolving"
    /\ pc = "done"
    /\ caller = "cmd"
    /\ cmd_result' = result.v
    /\ ResetResolver
    /\ hpc' = IF result.v # <<>> /\ Head(result.v) = ErrorMarker
              THEN "except"
              ELSE IF cmd \in {"content", "social"} /\ args.flag /\ NANO_BANANA_AVAILABLE(env)
                   THEN "imaging"
                   ELSE "send"
    /\ UNCHANGED <<botVars, cmd, args, deferred, image_result, temp_files, embed, followups, escaped>>

\* the resolver has returned to the handler
CmdTakeResult ==
    /\ hpc = "resolving"
    /\ pc = "done"
    /\ caller = "cmd"
    /\ cmd_result' = result.v
    /\ ResetResolver
    /\ hpc' = IF cmd \in {"content", "social"} /\ args.flag /\ NANO_BANANA_AVAILABLE(env)
              THEN "imaging"
              ELSE "send"
    /\ UNCHANGED <<botVars, cmd, args, deferred, image_result, temp_files, embed, followups, escaped>>

ImageOutcomes == {"call_raises", "no_image", "open_raises", "save_raises", "ok"}

TempPath == "/tmp/tmp.png"

\* await bot._generate_nano_banana_image(..): every exception is caught inside
_generate_nano_banana_image(outcome) ==
    /\ hpc = "imaging"
    /\ IF "nano_banana" \notin ai_clients
       THEN /\ outcome = "no_image"
            /\ image_result' = Some([success |-> FALSE, image_path |-> ""])
            /\ UNCHANGED temp_files
       ELSE /\ image_result' = IF outcome = "ok"
                               THEN Some([success |-> TRUE, image_path |-> TempPath])
                               ELSE Some([success |-> FALSE, image_path |-> ""])
            /\ temp_files' = IF outcome \in {"save_raises", "ok"}
                             THEN temp_files \cup {TempPath}
                             ELSE temp_files
    /\ hpc' = IF cmd = "image" /\ ~ImageReady(image_result') THEN "ask" ELSE "send"
    /\ UNCHANGED <<botVars, resolverVars, cmd, args, deferred, cmd_result, embed, followups, escaped>>

CmdSend_no_early_return(ok) ==
    /\ hpc = "send"
    /\ embed' = Some(BuildEmbed(cmd, cmd_result, args, image_result))
    /\ IF ok
       THEN /\ followups' =
                 LET sent == Append(followups,
                                    [kind |-> "embed", content |-> <<>>, embed |-> embed'.v,
                                     files |-> BuildFiles(cmd, cmd_result, image_result)])
                 IN IF cmd = "seo_audit" /\ BuildFiles(cmd, cmd_result, image_result) # <<>>
                    THEN Append(sent, [kind |-> "embed", content |-> <<>>, embed |-> embed'.v, files |-> <<>>])
                    ELSE sent
            /\ temp_files' = IF ImageReady(image_result)
                             THEN temp_files \ {image_result.v.image_path}
                             ELSE temp_files
            /\ hpc' = "finished"
       ELSE /\ hpc' = "except"
            /\ UNCHANGED <<followups, temp_files>>
    /\ UNCHANGED <<botVars, resolverVars, cmd, args, deferred, cmd_result, image_result, escaped>>

\* the embed is built and await interaction.followup.send(..) runs
CmdSend(ok) ==
    /\ hpc = "send"
    /\ embed' = Some(BuildEmbed(cmd, cmd_result, args, image_result))
    /\ IF ok
       THEN /\ followups' = Append(followups,
                                   [kind |-> "embed", content |-> <<>>, embed |-> embed'.v,
                                    files |-> BuildFiles(cmd, cmd_result, image_result)])
            /\ temp_files' = IF ImageReady(image_result)
                             THEN temp_files \ {image_result.v.image_path}
                             ELSE temp_files
            /\ hpc' = "finished"
       ELSE /\ hpc' = "except"
            /\ UNCHANGED <<followups, temp_files>>
    /\ UNCHANGED <<botVars, resolverVars, cmd, args, deferred, cmd_result, image_result, escaped>>

\* except Exception as e: await interaction.followup.send(f"X Error: {e}")
CmdSendError(ok) ==
    /\ hpc = "except"
    /\ IF ok
       THEN /\ followups' = Append(followups,
                                   [kind |-> "text", content |-> ErrorSentinel(ExcMsg),
                                    embed |-> [title |-> "", fields |-> <<>>], files |-> <<>>])
            /\ UNCHANGED escaped
       ELSE /\ escaped' = TRUE
            /\ UNCHANGED followups
    /\ hpc' = "finished"
    /\ UNCHANGED <<botVars, resolverVars, cmd, args, deferred, cmd_result, image_result, temp_files, embed>>

\* the invocation is over
CmdFinish ==
    /\ hpc = "finished"
    /\ cmd' = "none"
    /\ hpc' = "idle"
    /\ args' = [topic |-> <<>>, flag |-> FALSE]
    /\ deferred' = FALSE
    /\ cmd_result' = <<>>
    /\ image_result' = NoneVal
    /\ temp_files' = {}
    /\ embed' = NoneVal
    /\ followups' = <<>>
    /\ escaped' = FALSE
    /\ UNCHANGED <<botVars, resolverVars>>

\* ----------------------------------------------------------------- startup
\* the colour settings, the token and the exit of the process
UnsetColors == [i \in 1..Len(ColorSettings) |-> NoneVal]

BrandColors(ce) == [i \in 1..Len(ColorSettings) |-> parse_color(ce[i], ColorDefaults[i])]

\* bot = SVDiscordBot(): brand_config, then the client registry.  An exception
\* of parse_color leaves __init__ and ends the process with a traceback.
Construct ==
    /\ main_pc = "construct"
    /\ LET colors == BrandColors(color_env)
       IN IF \E i \in 1..Len(colors) : colors[i].raised
          THEN /\ main_pc' = "exited"
               /\ exit_status' = Some(1)
               /\ UNCHANGED <<brand_config, ai_clients>>
          ELSE /\ brand_config' = Some([i \in 1..Len(colors) |-> colors[i].value])
               /\ ai_clients' = _initialize_ai_clients(env)
               /\ main_pc' = "main"
               /\ UNCHANGED exit_status
    /\ UNCHANGED <<env, knowledge_base, last_added, readded, color_env, token, error_log, bot_run,
                   resolverVars, cmdVars>>

Main_none_only ==
    /\ main_pc = "main"
    /\ IF token.is_none
       THEN /\ error_log' = Append(error_log, "DISCORD_BOT_TOKEN not found")
            /\ exit_status' = Some(1)
            /\ main_pc' = "exited"
            /\ UNCHANGED bot_run
       ELSE /\ bot_run' = Append(bot_run, token.v)
            /\ main_pc' = "running"
            /\ UNCHANGED <<error_log, exit_status>>
    /\ UNCHANGED <<env, ai_clients, knowledge_base, last_added, readded, color_env, brand_config, token,
                   resolverVars, cmdVars>>

\* if __name__ == "__main__": the token test, then bot.run(token)
Main ==
    /\ main_pc = "main"
    /\ IF token.is_none \/ token.v = <<>>
       THEN /\ error_log' = Append(error_log, "DISCORD_BOT_TOKEN not found")
            /\ exit_status' = Some(1)
            /\ main_pc' = "exited"
            /\ UNCHANGED bot_run
       ELSE /\ bot_run' = Append(bot_run, token.v)
            /\ main_pc' = "running"
            /\ UNCHANGED <<error_log, exit_status>>
    /\ UNCHANGED <<env, ai_clients, knowledge_base, last_added, readded, color_env, brand_config, token,
                   resolverVars, cmdVars>>

\* bot.run(token) comes back: by an exception (logged, exit(1)) or by returning
BotRunEnds(raises) ==
    /\ main_pc = "running"
    /\ pc = "idle"
    /\ hpc = "idle"
    /\ IF raises
       THEN /\ error_log' = Append(error_log, "Bot startup error")
            /\ exit_status' = Some(1)
       ELSE /\ exit_status' = Some(0)
            /\ UNCHANGED error_log
    /\ main_pc' = "exited"
    /\ UNCHANGED <<env, ai_clients, knowledge_base, last_added, readded, color_env, brand_config, token,
                   bot_run, resolverVars, cmdVars>>

\* ----------------------------------------------------------- specification
IdleResolver ==
    /\ pc = "idle"
    /\ caller = "nobody"
    /\ prompt = <<>>
    /\ system_context = <<>>
    /\ use_knowledge = TRUE
    /\ max_length = NoneVal
    /\ enhanced_prompt = <<>>
    /\ calls = <<>>
    /\ result = NoneVal

\* no knowledge_base attribute yet; last_added and readded record, for the
\* properties, the latest content added under each title and the titles added
\* more than once
NoKnowledgeBase ==
    /\ knowledge_base = NoneVal
    /\ last_added = [t \in Titles |-> NoneVal]
    /\ readded = {}

\* the bot is constructed with no colour setting and bot.run(token) is under way
Running ==
    /\ color_env = UnsetColors
    /\ brand_config = Some([i \in 1..Len(ColorSettings) |-> BrandColors(UnsetColors)[i].value])
    /\ token = Some(<<"t">>)
    /\ main_pc = "running"
    /\ exit_status = NoneVal
    /\ error_log = <<>>
    /\ bot_run = <<<<"t">>>>

IdleCmd ==
    /\ cmd = "none"
    /\ hpc = "idle"
    /\ args = [topic |-> <<>>, flag |-> FALSE]
    /\ deferred = FALSE
    /\ cmd_result = <<>>
    /\ image_result = NoneVal
    /\ temp_files = {}
    /\ embed = NoneVal
    /\ followups = <<>>
    /\ escaped = FALSE

Init ==
    /\ env \in Envs
    /\ ai_clients = _initialize_ai_clients(env)
    /\ NoKnowledgeBase
    /\ IdleResolver
    /\ IdleCmd
    /\ Running

Next ==
    \/ \E p \in Requests, sc \in SystemContexts, uk \in BOOLEAN, ml \in MaxLengths :
            GetAIResponse(p, sc, uk, ml)
    \/ \E t \in ShortTexts : ProviderReturn(t)
    \/ ProviderRaise
    \/ ResolverReturn

Spec == Init /\ [][Next]_vars

\* the knowledge base and the resolver, with every key and library present
EnvsKB ==
    {e \in Envs : /\ e.keys = EnvKeysRead \cup EnvKeysUnread
                  /\ e.genai = "google.genai"
                  /\ e.openai
                  /\ e.init_raises = {}}

InitKB ==
    /\ env \in EnvsKB
    /\ ai_clients = _initialize_ai_clients(env)
    /\ NoKnowledgeBase
    /\ IdleResolver
    /\ IdleCmd
    /\ Running

NextKB ==
    \/ \E title \in Titles, content \in Contents : _add_to_knowledge_base(title, content)
    \/ \E p \in Requests, uk \in BOOLEAN : GetAIResponse(p, <<>>, uk, NoneVal)
    \/ ProviderReturn(<<"a">>)
    \/ ProviderRaise
    \/ ResolverReturn

SpecKB == InitKB /\ [][NextKB]_vars

\* the slash commands: every key set or none, either Gemini library
EnvsCmd ==
    {e \in Envs : /\ e.keys \in {{}, EnvKeysRead \cup EnvKeysUnread}
                  /\ e.genai # "none"
                  /\ e.openai
                  /\ e.init_raises = {}}

InitCmd ==
    /\ env \in EnvsCmd
    /\ ai_clients = _initialize_ai_clients(env)
    /\ NoKnowledgeBase
    /\ IdleResolver
    /\ IdleCmd
    /\ Running

NextCmd ==
    \/ \E c \in Commands : \E topic \in Topics, flag \in Flags(c) : CmdInvoke(c, topic, flag)
    \/ \E ok \in BOOLEAN : CmdDefer(ok)
    \/ CmdAsk
    \/ \E t \in CmdTexts : ProviderReturn(t)
    \/ ProviderRaise
    \/ CmdTakeResult
    \/ \E outcome \in ImageOutcomes : _generate_nano_banana_image(outcome)
    \/ \E ok \in BOOLEAN : CmdSend(ok)
    \/ \E ok \in BOOLEAN : CmdSendError(ok)
    \/ CmdFinish

SpecCmd == InitCmd /\ [][NextCmd]_vars

\* the start of the process: one colour setting given, any token
MaxColorLen == 6

ColorPrefixes ==
    {<<>>, <<"-">>, <<"+">>, <<"0", "x">>, <<"g">>, <<"1", "_">>, <<"_">>, <<"1", " ">>, <<"1", "#">>}

HexRun(n, k) == [i \in 1..n |-> IF k = 0 THEN (IF i % 2 = 1 THEN "1" ELSE "f") ELSE (IF i % 2 = 1 THEN "F" ELSE "0")]

ColorCores == {p \o HexRun(n, k) : p \in ColorPrefixes, n \in 0..MaxColorLen, k \in 0..1}

ColorStrs ==
    {NoneVal} \cup {Some(l \o c \o t) : l \in {<<>>, <<"#">>, <<" ">>}, c \in ColorCores, t \in {<<>>, <<" ">>}}

ColorEnvs == {[i \in 1..Len(ColorSettings) |-> IF i = k THEN c ELSE NoneVal] : k \in 1..Len(ColorSettings), c \in ColorStrs}

Tokens == {NoneVal, Some(<<>>), Some(<<" ">>), Some(<<"t">>)}

EnvsStart ==
    {e \in Envs : /\ e.keys = EnvKeysRead
                  /\ e.genai = "google.genai"
                  /\ e.openai
                  /\ e.init_raises = {}}

InitStart ==
    /\ env \in EnvsStart
    /\ ai_clients = {}
    /\ NoKnowledgeBase
    /\ IdleResolver
    /\ IdleCmd
    /\ color_env \in ColorEnvs
    /\ brand_config = NoneVal
    /\ token \in Tokens
    /\ main_pc = "construct"
    /\ exit_status = NoneVal
    /\ error_log = <<>>
    /\ bot_run = <<>>

NextStart ==
    \/ Construct
    \/ Main
    \/ \E raises \in BOOLEAN : BotRunEnds(raises)

SpecStart == InitStart /\ [][NextStart]_vars

\* ================================================================== claims
Done == pc = "done"

LastCall == calls[Len(calls)]

Answered == calls # <<>> /\ LastCall.outcome = "ok"

CalledBefore(q, i) == \E j \in 1..(i - 1) : calls[j].provider = q

AllRaised == \A q \in ai_clients : \E i \in 1..Len(calls) : calls[i].provider = q /\ calls[i].outcome = "raise"

Flatten(msgs) == IF Len(msgs) = 1 THEN msgs[1] ELSE msgs[1] \o msgs[2]

\* the calls made so far follow the priority order, skip no configured provider,
\* and each call but the last has failed
InPriorityOrder ==
    /\ \A i \in 1..(Len(calls) - 1) :
          /\ Position(calls[i].provider) < Position(calls[i + 1].provider)
          /\ calls[i].outcome = "raise"
    /\ \A i \in 1..Len(calls) : \A q \in ai_clients :
          Position(q) < Position(calls[i].provider) => CalledBefore(q, i)

C2_RaiseFallsThrough ==
    \A i \in 1..Len(calls) :
        calls[i].outcome = "raise" =>
            LET later == {q \in ai_clients : Position(q) > Position(calls[i].provider)}
            IN IF later = {}
               THEN i = Len(calls) /\ Done /\ result = Some(NoServiceSentinel)
               ELSE /\ i < Len(calls)
                    /\ calls[i + 1].provider \in later
                    /\ \A q \in later : Position(calls[i + 1].provider) <= Position(q)

C2_Witness ==
    /\ Len(calls) = 2
    /\ calls[1].provider = "gemini"
    /\ calls[1].outcome = "raise"
    /\ calls[2].provider = "openai"
    /\ calls[2].outcome = "pending"

\* C3: when no provider is configured, or every configured provider has raised,
\* the resolver returns (it does not raise) the fixed string
\* "X No AI service available.", which begins with the error marker.
C3_SentinelWhenExhausted ==
    /\ Done => ~result.is_none
    /\ (Done /\ AllRaised) =>
          /\ result.v = <<"X", " ", "N", "o", " ", "A", "I", " ", "s", "e", "r", "v", "i", "c", "e", " ",
                          "a", "v", "a", "i", "l", "a", "b", "l", "e", ".">>
          /\ result.v = NoServiceSentinel
          /\ Head(result.v) = ErrorMarker

C3_Witness ==
    /\ Done
    /\ Cardinality(ai_clients) = 2
    /\ AllRaised
    /\ result = Some(NoServiceSentinel)

C3_WitnessNoClient ==
    /\ Done
    /\ ai_clients = {}
    /\ calls = <<>>
    /\ result = Some(NoServiceSentinel)

NoGeminiClient == ai_clients \cap {"nano_banana", "gemini"} = {}

OnlyAnthropicKey == env.keys = {"ANTHROPIC_API_KEY"}

C8_PromptContainsRequest ==
    /\ pc # "idle" => enhanced_prompt # <<>> /\ IsSubstring(prompt, enhanced_prompt)
    /\ \A i \in 1..Len(calls) :
          /\ Flatten(calls[i].payload) # <<>>
          /\ IsSubstring(prompt, Flatten(calls[i].payload))

C8_Witness ==
    /\ Len(calls) = 2
    /\ calls[1].provider = "nano_banana"
    /\ calls[2].provider = "openai"
    /\ prompt = <<"A">>
    /\ system_context = <<"a">>

ManualEntries == IF knowledge_base.is_none THEN <<>> ELSE knowledge_base.v.manual_entries

EntriesTitled(t) == {i \in 1..Len(ManualEntries) : ManualEntries[i].key = t}

\* C9: after any sequence of adds, a title that was added has exactly one entry,
\* holding the content of the most recent add for that title, and a title that
\* was never added has none: a re-add replaces, never duplicates, and leaves the
\* entries of other titles as they were.
C9_TitleOverwrites ==
    \A t \in Titles :
        IF last_added[t].is_none
        THEN EntriesTitled(t) = {}
        ELSE /\ Cardinality(EntriesTitled(t)) = 1
             /\ \A i \in EntriesTitled(t) : ManualEntries[i].value.content = last_added[t].v

\* C9, the step form: an add changes no entry under another title.
C9_OthersUntouched ==
    [][\A t \in Titles :
          (last_added'[t] = last_added[t] /\ ~last_added[t].is_none) =>
              \E i \in 1..Len(ManualEntries) : \E j \in 1..Len(ManualEntries') :
                  /\ ManualEntries[i].key = t
                  /\ ManualEntries'[j] = ManualEntries[i]]_vars

C9_Witness ==
    /\ Len(ManualEntries) = 2
    /\ ManualEntries[1].key = Title(1)
    /\ Title(1) \in readded
    /\ Title(2) \notin readded
    /\ ManualEntries[1].value.content = <<"A", "a">>
    /\ ManualEntries[2].value.content = <<"a">>

\* the entry matches the query: case-insensitive substring of title or content
MatchesQuery(entry, q) ==
    \/ IsSubstring(LowerStr(q), LowerStr(entry.key))
    \/ IsSubstring(LowerStr(q), LowerStr(entry.value.content))

\* positions of the first 3 matching entries
FirstMatches(q) ==
    LET hits == {i \in 1..Len(ManualEntries) : MatchesQuery(ManualEntries[i], q)}
    IN {i \in hits : Cardinality({j \in hits : j < i}) < 3}

LabelPos(str, label) == CHOOSE i \in 1..Len(str) : str[i] = label

\* what the enhanced prompt holds between the role text and the request label
KnowledgePart ==
    SubSeq(enhanced_prompt,
           LabelPos(enhanced_prompt, "Your Expert Role: ") + Len(system_context) + 1,
           LabelPos(enhanced_prompt, "User Request: ") - 1)

\* C10 as stated: with use_knowledge the assembled prompt carries, between the
\* role text and the request, a knowledge block with (the first 200 symbols of)
\* each of the first 3 matching entries, and nothing of a non-matching entry
\* alone; without use_knowledge it carries no knowledge block.
C10_KnowledgeBlock ==
    pc # "idle" =>
        IF use_knowledge
        THEN /\ \A i \in FirstMatches(prompt) :
                   IsSubstring(Prefix(ManualEntries[i].value.content, 200), KnowledgePart)
             /\ FirstMatches(prompt) = {} => KnowledgePart = <<>>
        ELSE KnowledgePart = <<>>

\* the labels of the embed fields whose value is (a slice of) the model output
OutputLabels ==
    {"Content Preview (Part 1)", "Content Preview (Part 2)", "Complete Content",
     "Concept", "Post (Part 1)", "Post (Part 2)", "Post",
     "Campaign Preview (Part 1)", "Campaign Preview (Part 2)", "Complete Campaign Strategy",
     "SEO Analysis", "Continued"}

OutputFields == {i \in 1..Len(embed.v.fields) : embed.v.fields[i].name[1] \in OutputLabels}

EmbedBuilt == ~embed.is_none

C6_WitnessSocial ==
    /\ EmbedBuilt
    /\ cmd = "social"
    /\ Len(cmd_result) = 1025
    /\ Cardinality(OutputFields) = 2

\* C7: in every command handler and for every result length, each embed field
\* that carries model output (and the keyword field derived from it) holds at
\* most 1024 characters, in the embed built and in every follow-up sent.
C7_FieldsWithinLimit ==
    /\ EmbedBuilt =>
          \A i \in 1..Len(embed.v.fields) :
              embed.v.fields[i].name[1] \in OutputLabels \cup {"SEO Keywords Found"} =>
                  Len(embed.v.fields[i].value) <= 1024
    /\ \A m \in 1..Len(followups) : \A i \in 1..Len(followups[m].embed.fields) :
          followups[m].embed.fields[i].name[1] \in OutputLabels =>
              Len(followups[m].embed.fields[i].value) <= 1024

C7_Witness ==
    /\ EmbedBuilt
    /\ cmd = "image"
    /\ Len(cmd_result) = 1025
    /\ Len(followups) = 1
    /\ \E i \in OutputFields : Len(embed.v.fields[i].value) = 1024

C7_WitnessSeo ==
    /\ EmbedBuilt
    /\ cmd = "seo_audit"
    /\ Len(cmd_result) = 6145
    /\ Cardinality(OutputFields) = 6
    /\ \A i \in OutputFields : Len(embed.v.fields[i].value) = 1024

KeywordFieldWitness ==
    /\ EmbedBuilt
    /\ cmd = "content"
    /\ embed.v.fields[1] = Field(<<"SEO Keywords Found">>, <<"p", "r", "o", "d", "u", "c", "t", "i", "v", "i", "t", "y">>)

\* the invocation has run to its end (normally or by an exception)
Finished == hpc = "finished"

ErrorFollowups == {m \in 1..Len(followups) : followups[m].kind = "text" /\ Prefix(followups[m].content, 7) = <<ErrorMarker, " ", "E", "r", "r", "o", "r">>}

EmbedFollowups == {m \in 1..Len(followups) : followups[m].kind = "embed"}

\* C11 as stated: no command handler lets an exception escape to the host
\* framework, and an invocation in which something failed (the defer, or the
\* sending of the follow-up) ends with a user-facing "X Error" message.
C11_NoExceptionEscapes ==
    /\ ~escaped
    /\ (Finished /\ EmbedFollowups = {}) => ErrorFollowups # {}

TokenMissing == token.is_none \/ token.v = <<>>

Logged(msg) == \E i \in 1..Len(error_log) : error_log[i] = msg

\* C12: when DISCORD_BOT_TOKEN is missing or empty, bot.run is never called and
\* the process, once past the token test, has logged the error and exited with
\* status 1; bot.run is called only with a token that is present, and with that
\* token.
C12_TokenRequired ==
    /\ TokenMissing =>
          /\ bot_run = <<>>
          /\ main_pc \in {"construct", "main", "exited"}
          /\ main_pc = "exited" =>
                /\ exit_status = Some(1)
                /\ Logged("DISCORD_BOT_TOKEN not found")
    /\ bot_run # <<>> => ~TokenMissing /\ bot_run = <<token.v>>
    /\ main_pc = "running" => bot_run # <<>>

C12_Witness ==
    /\ token = Some(<<>>)
    /\ main_pc = "exited"
    /\ exit_status = Some(1)
    /\ bot_run = <<>>

C12_WitnessStarted ==
    /\ token = Some(<<"t">>)
    /\ main_pc = "running"
    /\ bot_run = <<<<"t">>>>

GeminiClients == ai_clients \cap {"nano_banana", "gemini"}

\* C13: a Gemini client ('nano_banana' or 'gemini') is in the registry only if
\* GEMINI_API_KEY is set and an OpenAI client only if OPENAI_API_KEY is set; a
\* provider whose initialisation raised is not in the registry, and the other
\* provider, when its key and library are there and its own initialisation does
\* not raise, is.
C13_RegistryFollowsKeys ==
    /\ ai_clients \subseteq {"nano_banana", "gemini", "openai"}
    /\ GeminiClients # {} => "GEMINI_API_KEY" \in env.keys
    /\ "openai" \in ai_clients => "OPENAI_API_KEY" \in env.keys
    /\ "gemini" \in env.init_raises =>
          /\ GeminiClients = {}
          /\ ("OPENAI_API_KEY" \in env.keys /\ env.openai /\ "openai" \notin env.init_raises) =>
                "openai" \in ai_clients
    /\ "openai" \in env.init_raises =>
          /\ "openai" \notin ai_clients
          /\ ("GEMINI_API_KEY" \in env.keys /\ env.genai # "none" /\ "gemini" \notin env.init_raises) =>
                GeminiClients # {}

C13_Witness ==
    /\ env.keys = {"GEMINI_API_KEY", "OPENAI_API_KEY", "ANTHROPIC_API_KEY"}
    /\ env.init_raises = {"gemini"}
    /\ ai_clients = {"openai"}
    /\ Done
    /\ Answered

C13_WitnessOpenAIRaises ==
    /\ env.init_raises = {"openai"}
    /\ env.genai = "google.generativeai"
    /\ ai_clients = {"gemini"}

\* the integer values of '#1888FF', '#F8F8EB', '#004B8D', '#231F20'
DefaultColorValues == <<1607935, 16316651, 19341, 2301728>>

SixDigitValue(str) ==
    HexVal(str[1]) * 1048576 + HexVal(str[2]) * 65536 + HexVal(str[3]) * 4096
        + HexVal(str[4]) * 256 + HexVal(str[5]) * 16 + HexVal(str[6])

\* the setting without its '#' and surrounding blanks; empty when unset
CleanSetting(i) == IF color_env[i].is_none THEN <<>> ELSE Strip(Remove(color_env[i].v, "#"))

Constructed == ~brand_config.is_none

\* C14: parse_color never raises (construction always gets past brand_config);
\* for a setting that is unset, empty or blank, that is not 6 characters long
\* once '#' and surrounding blanks are removed, or that int(.., 16) cannot
\* parse, the stored colour is the integer value of the default; for a setting
\* of 6 hexadecimal digits it is the value of those digits.
C14_ParseColorDefaults ==
    /\ main_pc # "construct" => Constructed
    /\ Constructed =>
          \A i \in 1..Len(ColorSettings) :
              /\ (\/ color_env[i].is_none
                  \/ Strip(color_env[i].v) = <<>>
                  \/ Len(CleanSetting(i)) # 6
                  \/ IntBase16(CleanSetting(i)).is_none) =>
                        brand_config.v[i] = DefaultColorValues[i]
              /\ (Len(CleanSetting(i)) = 6 /\ \A j \in 1..6 : CleanSetting(i)[j] \in HexDigits) =>
                        brand_config.v[i] = SixDigitValue(CleanSetting(i))

C14_Witness ==
    /\ Constructed
    /\ color_env[1] = Some(<<" ", "g", "1", "f", "1", "f", "1", " ">>)
    /\ brand_config.v[1] = 1607935

C14_WitnessValid ==
    /\ Constructed
    /\ color_env[2] = Some(<<"#", "F", "0", "F", "0", "F", "0">>)
    /\ brand_config.v[2] = 15790320

C14_WitnessBlank ==
    /\ Constructed
    /\ color_env[3] = Some(<<" ">>)
    /\ brand_config.v[3] = 19341

PendingCalls == {i \in 1..Len(calls) : calls[i].outcome = "pending"}

\* C15: within one request each provider is called at most once, at most one
\* call is in flight and it is the latest one, and a provider is called only
\* after the call of every configured provider of higher priority has failed.
C15_AtMostOnceSequential ==
    /\ \A i, j \in 1..Len(calls) : i # j => calls[i].provider # calls[j].provider
    /\ Cardinality(PendingCalls) <= 1
    /\ \A i \in PendingCalls : i = Len(calls)
    /\ \A i \in 1..Len(calls) : \A q \in ai_clients :
          Position(q) < Position(calls[i].provider) =>
              \E j \in 1..(i - 1) : calls[j].provider = q /\ calls[j].outcome = "raise"

C15_Witness ==
    /\ Done
    /\ Len(calls) = 2
    /\ calls[1].provider = "nano_banana"
    /\ calls[1].outcome = "raise"
    /\ calls[2].provider = "openai"
    /\ calls[2].outcome = "raise"

\* C16: no step of a request -- a resolver call, a provider's answer or failure,
\* any step of a command invocation -- adds an entry to the AI client registry
\* or removes one: the registry stays what _initialize_ai_clients made it.
C16_RegistryUnchanged == [][ai_clients' = ai_clients]_vars

C16_Witness ==
    /\ Finished
    /\ ai_clients = {"nano_banana", "openai"}
    /\ cmd_result = NoServiceSentinel
    /\ EmbedFollowups = {}
    /\ ErrorFollowups # {}

\* C17 as stated: whatever the handler and the result length, at most 3 slices
\* of the result are attached as embed fields.
C17_AtMostThreeSlices == EmbedBuilt => Cardinality(OutputFields) <= 3

\* C17 (amended): the number of slices of the result attached as embed fields
\* is bounded per handler: at most 2 in /content, /social and /campaign, 1 in
\* /image, and 6 in /seo_audit -- in the embed built and in the follow-up sent.
C17_SliceBoundPerHandler ==
    /\ EmbedBuilt =>
          Cardinality(OutputFields) <=
              (CASE cmd \in {"content", "social", "campaign"} -> 2
                 [] cmd = "image" -> 1
                 [] cmd = "seo_audit" -> 6)
    /\ \A m \in EmbedFollowups :
          Cardinality({i \in 1..Len(followups[m].embed.fields) :
                          followups[m].embed.fields[i].name[1] \in OutputLabels}) <=
              (IF cmd = "seo_audit" THEN 6 ELSE 2)

C17_Witness ==
    /\ cmd = "seo_audit"
    /\ Len(cmd_result) > 6144
    /\ EmbedFollowups # {}
    /\ Cardinality(OutputFields) = 6

SuccessTitle(c) ==
    CASE c = "content" -> "STAFFVIRTUAL Enhanced Content Created!"
      [] c = "social" -> "STAFFVIRTUAL Enhanced Social Post!"
      [] c = "campaign" -> "STAFFVIRTUAL Enhanced Campaign Strategy!"
      [] c = "seo_audit" -> "STAFFVIRTUAL SEO Audit Complete!"

GotSentinel ==
    /\ cmd \in {"content", "social", "campaign", "seo_audit"}
    /\ cmd_result = NoServiceSentinel

\* the embed is the success embed of command c with the whole of text t in one field
SuccessEmbedWith(e, c, t) ==
    /\ e.title = SuccessTitle(c)
    /\ \E i \in 1..Len(e.fields) : e.fields[i].name[1] \in OutputLabels /\ e.fields[i].value = t

\* C18: when the resolver has returned the "no service" sentinel to /content,
\* /social, /campaign or /seo_audit, the handler goes on as for any result: it
\* reaches its except block only from a failed send, the embed it builds and the
\* follow-up it sends are the success-titled embed with the sentinel as field
\* content, and the file of /content and /campaign holds the sentinel.
C18_SentinelSentAsSuccess ==
    GotSentinel =>
        /\ hpc \in {"imaging", "send", "except", "finished"}
        /\ hpc = "except" => EmbedBuilt
        /\ EmbedBuilt => SuccessEmbedWith(embed.v, cmd, NoServiceSentinel)
        /\ \A m \in 1..Len(followups) :
              \/ /\ followups[m].kind = "embed"
                 /\ SuccessEmbedWith(followups[m].embed, cmd, NoServiceSentinel)
                 /\ cmd \in {"content", "campaign"} =>
                       /\ followups[m].files # <<>>
                       /\ IsSubstring(NoServiceSentinel, followups[m].files[1].body)
              \/ /\ followups[m].kind = "text"
                 /\ EmbedBuilt

C18_Witness ==
    /\ cmd = "content"
    /\ cmd_result = NoServiceSentinel
    /\ ai_clients = {}
    /\ Finished
    /\ Len(followups) = 1
    /\ followups[1].kind = "embed"
    /\ followups[1].embed.title = "STAFFVIRTUAL Enhanced Content Created!"

C18_WitnessAllRaised ==
    /\ cmd = "seo_audit"
    /\ cmd_result = NoServiceSentinel
    /\ ai_clients # {}
    /\ EmbedFollowups # {}

\* the slices of the result shown in the fields of embed e, put together
ShownText(e) ==
    LET F[i \in 0..Len(e.fields)] ==
            IF i = 0 THEN <<>>
            ELSE IF e.fields[i].name[1] \in OutputLabels THEN F[i - 1] \o e.fields[i].value ELSE F[i - 1]
    IN F[Len(e.fields)]

CarriesWholeResult(files) == \E k \in 1..Len(files) : IsSubstring(cmd_result, files[k].body)

\* C19 as stated: in every follow-up with an embed, if the embed fields do not
\* show the whole result then a file attached to that follow-up holds the whole
\* result.
C19_NothingLost ==
    \A m \in EmbedFollowups :
        ShownText(followups[m].embed) # cmd_result => CarriesWholeResult(followups[m].files)

\* C20 as stated: a deferred invocation that has finished has sent exactly one
\* follow-up, the result embed or an "X Error" message.
C20_ExactlyOneFollowup ==
    (Finished /\ deferred) =>
        /\ Len(followups) = 1
        /\ EmbedFollowups # {} \/ ErrorFollowups # {}

\* C20 (amended): an invocation never sends more than one follow-up, and none
\* before it is deferred; a deferred invocation that has finished has sent
\* exactly one -- the result embed, or the "X Error" message when sending the
\* embed raised -- except when sending the error message raised as well: then
\* it has sent none and that exception has left the handler.
C20_OneFollowupUnlessSendFailsTwice ==
    /\ Len(followups) <= 1
    /\ ~deferred => followups = <<>>
    /\ \A m \in 1..Len(followups) : m \in EmbedFollowups \/ m \in ErrorFollowups
    /\ ErrorFollowups # {} => EmbedBuilt
    /\ (Finished /\ deferred) =>
          IF escaped THEN followups = <<>> /\ EmbedBuilt ELSE Len(followups) = 1

C20_Witness ==
    /\ Finished
    /\ deferred
    /\ cmd = "seo_audit"
    /\ Len(cmd_result) > 6144
    /\ Len(followups) = 1
    /\ followups[1].files # <<>>

C20_WitnessError ==
    /\ Finished
    /\ deferred
    /\ cmd = "image"
    /\ followups # <<>>
    /\ ErrorFollowups = {1}

C20_WitnessNone ==
    /\ Finished
    /\ deferred
    /\ escaped
    /\ followups = <<>>

\* C21 as stated: when an invocation has finished, every temporary image file
\* that image generation created during it has been deleted -- after a
\* follow-up that was sent, after one whose sending failed, and after a failed
\* save of the image.
C21_TempFilesDeleted == Finished => temp_files = {}

\* C22: the registry never holds both 'nano_banana' and 'gemini'; after a
\* 'nano_banana' call that raised no 'gemini' call is made: the next call is the
\* OpenAI one when an OpenAI client exists, and otherwise there is no further
\* call and the resolver returns the "no service" sentinel.
C22_NanoBananaExcludesGemini ==
    /\ ~({"nano_banana", "gemini"} \subseteq ai_clients)
    /\ \A i \in 1..Len(calls) :
          (calls[i].provider = "nano_banana" /\ calls[i].outcome = "raise") =>
              /\ \A j \in 1..Len(calls) : calls[j].provider # "gemini"
              /\ IF "openai" \in ai_clients
                 THEN i + 1 = Len(calls) /\ calls[i + 1].provider = "openai"
                 ELSE i = Len(calls) /\ Done /\ result = Some(NoServiceSentinel)

C22_Witness ==
    /\ env.genai = "google.genai"
    /\ Len(calls) = 2
    /\ calls[1].provider = "nano_banana"
    /\ calls[1].outcome = "raise"
    /\ calls[2].provider = "openai"
    /\ calls[2].outcome = "ok"
    /\ max_length.is_none

C22_WitnessLegacy ==
    /\ env.genai = "google.generativeai"
    /\ ai_clients = {"gemini", "openai"}
    /\ Len(calls) = 2
    /\ calls[1].provider = "gemini"

\* C23 as stated: every colour that construction stores in brand_config, for
\* every setting and its default, is an integer from 0 to 0xFFFFFF (16777215).
C23_ColorInRange ==
    Constructed => \A i \in 1..Len(ColorSettings) : brand_config.v[i] \in 0..16777215

====
